---- MODULE Spec2Model ----
(***************************************************************************)
(* Model of gotree (src/main.go): the process table, buildTree/addPid,     *)
(* Main's filtering of flags.pids and its splice loop, findTree,           *)
(* depthTree and flatTree/flatTreeIndent.                                  *)
(*                                                                         *)
(* A Go map is a reference: processTree values are addresses into `heap',  *)
(* and heap[a] is the map stored at address a (a function from the keys of *)
(* the map to the addresses of the child maps).  The address of a map      *)
(* allocated by addPid is <<0>> followed by the keys that lead to it; the  *)
(* address of a map allocated by Main is <<-1, n>>, n counting Main's      *)
(* allocations.  Nil is the nil map.                                       *)
(***************************************************************************)
EXTENDS Integers, Sequences, FiniteSets, TLC

\* Largest process id of the snapshots that are enumerated.
MaxPid == 3
\* Longest list of -pids arguments.
MaxFlags == 2

Pid == 0 .. MaxPid

\* the table of the scenarios: 1->0, 2->1, 3->1, 4->2
Example == [k \in 1 .. 4 |-> IF k = 1 THEN 0 ELSE IF k = 4 THEN 2 ELSE 1]

VARIABLES
  tb,        \* processTable: pid -> Ppid of its record
  heap,      \* address -> map (key -> address of the child map)
  pc,        \* position in Main
  done,      \* buildTree: keys of tb the range loop has already produced
  pid,       \* buildTree: loop variable of the ancestor walk
  bpids,     \* buildTree: the slice `pids' (root first)
  flagPids,  \* flags.pids
  pids,      \* Main: the filtered target list
  i,         \* Main: index of the range loop over pids
  apid,      \* Main: loop variable of the ancestors loop
  trb,       \* Main: the subtree being inserted (inner `tr', `trb')
  tx,        \* Main: the map of the result tree the descent is at
  nalloc,    \* Main: number of maps allocated so far
  flat       \* sequence of <<indent, pid>> passed to display by flatTree

vars == <<tb, heap, pc, done, pid, bpids, flagPids, pids, i, apid, trb, tx,
          nalloc, flat>>

Nil == <<>>
\* processTree{} and the addresses of the two trees of Main
EmptyMap == [k \in {} |-> Nil]
tr == <<0>>
trx == <<-1, 0>>

\* len(m) and the keys of a map, nil included
Keys(h, a) == IF a = Nil THEN {} ELSE DOMAIN h[a]

\* m[k] = v
MapPut(m, k, v) == [x \in (DOMAIN m) \cup {k} |-> IF x = k THEN v ELSE m[x]]

\* the heap after storing map m at address a
HeapPut(h, a, m) == [x \in (DOMAIN h) \cup {a} |-> IF x = a THEN m ELSE h[x]]

\* processTable: every snapshot over Pid, where pid 0 (the kernel) has
\* parent 0, and the table of the scenarios
Tables ==
  { t \in UNION { [K -> Pid] : K \in SUBSET Pid } :
      0 \in DOMAIN t => t[0] = 0 }
  \cup {Example}

\* the cap on the slice built by buildTree's ancestor walk: a walk that ends
\* takes every key at most once and at most one id that is not a key
WalkCap(t) == Cardinality(DOMAIN t) + 1

\* addPid that forgets the map it is in after the first key
RECURSIVE addPidFlat(_, _, _)
addPidFlat(h, a, ps) ==
  IF ps = <<>> THEN h
  ELSE LET k  == Head(ps)
           n  == a \o <<k>>
           h1 == IF k \in DOMAIN h[a] THEN h
                 ELSE HeapPut(HeapPut(h, n, EmptyMap), a, MapPut(h[a], k, n))
       IN addPidFlat(h1, a, Tail(ps))

\* addPid that drops the `!ok' test and always stores a new map
RECURSIVE addPidOverwrite(_, _, _)
addPidOverwrite(h, a, ps) ==
  IF ps = <<>> THEN h
  ELSE LET k  == Head(ps)
           n  == a \o <<k>>
           h1 == HeapPut(HeapPut(h, n, EmptyMap), a, MapPut(h[a], k, n))
       IN addPidOverwrite(h1, h1[a][k], Tail(ps))

\* addPid(tr, pids): the heap after inserting the path ps below the map at a
RECURSIVE addPid(_, _, _)
addPid(h, a, ps) ==
  IF ps = <<>> THEN h
  ELSE LET k  == Head(ps)
           n  == a \o <<k>>
           h1 == IF k \in DOMAIN h[a] THEN h
                 ELSE HeapPut(HeapPut(h, n, EmptyMap), a, MapPut(h[a], k, n))
       IN addPid(h1, h1[a][k], Tail(ps))

\* the elements of a slice
Range(s) == { s[n] : n \in 1 .. Len(s) }

\* every order in which a range loop can produce the keys S of a map
RECURSIVE Perms(_)
Perms(S) ==
  IF S = {} THEN { <<>> }
  ELSE UNION { { <<x>> \o p : p \in Perms(S \ {x}) } : x \in S }

\* findTree that returns the map it found the key in instead of the key's own
\* map (the outer `tr' instead of the loop variable that shadows it)
RECURSIVE findTreeOuter(_, _, _)
findTreeOuter(h, a, node) ==
  UNION { IF key = node THEN { a } ELSE findTreeOuter(h, h[a][key], node)
          : key \in Keys(h, a) }

\* findTree(tr, parent): the child maps findTree can find for key `node',
\* over every order of its range loops; the empty set is the nil result, and
\* a result r stands for the new map processTree{node: r}
RECURSIVE findTree(_, _, _)
findTree(h, a, node) ==
  UNION { IF key = node THEN { h[a][key] } ELSE findTree(h, h[a][key], node)
          : key \in Keys(h, a) }

\* depthTree(tr)
RECURSIVE depthTree(_, _)
depthTree(h, a) ==
  LET ds == { depthTree(h, h[a][k]) + 1 : k \in Keys(h, a) }
  IN IF ds = {} THEN 0 ELSE CHOOSE d \in ds : \A e \in ds : e <= d

\* a comparison that sorts the shallowest subtree first
lessShallow(h, a, x, y) ==
  LET dti == depthTree(h, h[a][x])
      dtj == depthTree(h, h[a][y])
  IN dti < dtj \/ (dti = dtj /\ x < y)

\* a comparison without the tie-break on the pid
lessNoTie(h, a, x, y) ==
  LET dti == depthTree(h, h[a][x])
      dtj == depthTree(h, h[a][y])
  IN dti > dtj

\* the less function given to sort.Slice, for keys x and y of the map at a
less(h, a, x, y) ==
  LET dti == depthTree(h, h[a][x])
      dtj == depthTree(h, h[a][y])
  IN dti > dtj \/ (dti = dtj /\ x < y)

\* sort.Slice on a short slice is an insertion sort: x moves left while it
\* is less than its left neighbour
RECURSIVE insertLeft(_, _, _, _)
insertLeft(h, a, s, x) ==
  IF s = <<>> THEN <<x>>
  ELSE IF less(h, a, x, s[Len(s)])
         THEN insertLeft(h, a, SubSeq(s, 1, Len(s) - 1), x) \o <<s[Len(s)]>>
         ELSE s \o <<x>>

RECURSIVE sortSlice(_, _, _)
sortSlice(h, a, s) ==
  IF s = <<>> THEN <<>>
  ELSE insertLeft(h, a, sortSlice(h, a, SubSeq(s, 1, Len(s) - 1)), s[Len(s)])

\* flatTreeIndent that appends the subtrees after all the keys of a level
RECURSIVE flatTreeIndentLevel(_, _, _)
flatTreeIndentLevel(h, a, indent) ==
  IF Keys(h, a) = {} THEN { <<>> }
  ELSE LET RECURSIVE own(_), below(_)
           own(s) == IF s = <<>> THEN <<>>
                     ELSE << <<indent, Head(s)>> >> \o own(Tail(s))
           below(s) ==
             IF s = <<>> THEN { <<>> }
             ELSE { f \o r :
                      f \in flatTreeIndentLevel(h, h[a][Head(s)], indent + 1),
                      r \in below(Tail(s)) }
       IN UNION { { own(sortSlice(h, a, p)) \o b : b \in below(sortSlice(h, a, p)) }
                  : p \in Perms(Keys(h, a)) }

\* flatTreeIndent(tb, tr, indent): the sequences of display calls
\* <<indent, pid>> it can make, over every order of `for pid := range tr'
RECURSIVE flatTreeIndent(_, _, _)
flatTreeIndent(h, a, indent) ==
  IF Keys(h, a) = {} THEN { <<>> }
  ELSE LET RECURSIVE emit(_)
           emit(s) ==
             IF s = <<>> THEN { <<>> }
             ELSE { << <<indent, Head(s)>> >> \o f \o r :
                      f \in flatTreeIndent(h, h[a][Head(s)], indent + 1),
                      r \in emit(Tail(s)) }
       IN UNION { emit(sortSlice(h, a, p)) : p \in Perms(Keys(h, a)) }

flatTree(h, a) == flatTreeIndent(h, a, 0)

\* the values flags.pids can hold: lists of ids of Pid and of the scenarios
FlagLists == UNION { [1 .. n -> Pid \cup DOMAIN Example] : n \in 0 .. MaxFlags }

\* Main's first loop: the flags that are keys of tb, in order
RECURSIVE filterPids(_, _)
filterPids(t, fp) ==
  IF fp = <<>> THEN <<>>
  ELSE (IF Head(fp) \in DOMAIN t THEN <<Head(fp)>> ELSE <<>>)
         \o filterPids(t, Tail(fp))

\* the address of the next map Main allocates
NewAddr(n) == <<-1, n>>

Init ==
  /\ tb \in Tables
  /\ heap = HeapPut(EmptyMap, tr, EmptyMap)
  /\ pc = "range"
  /\ done = {}
  /\ pid = 0
  /\ bpids = <<>>
  /\ flagPids = <<>>
  /\ pids = <<>>
  /\ i = 1
  /\ apid = 0
  /\ trb = Nil
  /\ tx = Nil
  /\ nalloc = 0
  /\ flat = <<>>

mainVars == <<flagPids, pids, i, apid, trb, tx, nalloc, flat>>

\* buildTree: `for pid := range tb' produces the next key, in any order
RangeNext ==
  /\ pc = "range"
  /\ \E p \in (DOMAIN tb) \ done :
       /\ done' = done \cup {p}
       /\ pid' = p
  /\ bpids' = <<>>
  /\ pc' = "walk"
  /\ UNCHANGED <<tb, heap, mainVars>>

\* buildTree: one iteration of `for ; pid > 0; pid = tb[pid].Ppid';
\* tb[pid] of an absent pid is a nil *process, and reading its Ppid panics
Walk ==
  /\ pc = "walk"
  /\ pid > 0
  /\ Len(bpids) < WalkCap(tb)
  /\ bpids' = <<pid>> \o bpids
  /\ IF pid \in DOMAIN tb
       THEN /\ pid' = tb[pid]
            /\ pc' = pc
       ELSE /\ pid' = pid
            /\ pc' = "panic"
  /\ UNCHANGED <<tb, heap, done, mainVars>>

\* buildTree: the walk has ended, addPid(tr, pids)
AddPath ==
  /\ pc = "walk"
  /\ pid <= 0
  /\ heap' = addPid(heap, tr, bpids)
  /\ pc' = "range"
  /\ UNCHANGED <<tb, done, pid, bpids, mainVars>>

\* buildTree: the range loop is over, return tr; the locals of the loop are
\* cleared
RangeEnd ==
  /\ pc = "range"
  /\ done = DOMAIN tb
  /\ pid' = 0
  /\ bpids' = <<>>
  /\ pc' = "filter"
  /\ UNCHANGED <<tb, heap, done, mainVars>>


buildVars == <<done, pid, bpids>>

\* Main lines 66-76: filter flags.pids, default to Pids{1}, trx := processTree{}
FilterPids ==
  /\ pc = "filter"
  /\ \E fp \in FlagLists :
       /\ flagPids' = fp
       /\ pids' = IF filterPids(tb, fp) = <<>> THEN <<1>> ELSE filterPids(tb, fp)
  /\ heap' = HeapPut(heap, trx, EmptyMap)
  /\ nalloc' = 1
  /\ i' = 1
  /\ pc' = "next"
  /\ UNCHANGED <<tb, buildVars, apid, trb, tx, flat>>

\* Main lines 77-80: the target is already in trx, continue
Found ==
  /\ pc = "next"
  /\ i <= Len(pids)
  /\ findTree(heap, trx, pids[i]) # {}
  /\ i' = i + 1
  /\ UNCHANGED <<tb, heap, pc, buildVars, flagPids, pids, apid, trb, tx,
                 nalloc, flat>>

\* Main lines 81-82: tr := findTree(tr, pid), then pid := tb[pid].Ppid, which
\* panics when the target is not a key of tb
Find ==
  /\ pc = "next"
  /\ i <= Len(pids)
  /\ findTree(heap, trx, pids[i]) = {}
  /\ \/ /\ findTree(heap, tr, pids[i]) = {}
        /\ trb' = Nil
        /\ UNCHANGED <<heap, nalloc>>
     \/ \E r \in findTree(heap, tr, pids[i]) :
          /\ heap' = HeapPut(heap, NewAddr(nalloc), MapPut(EmptyMap, pids[i], r))
          /\ trb' = NewAddr(nalloc)
          /\ nalloc' = nalloc + 1
  /\ IF pids[i] \in DOMAIN tb
       THEN /\ apid' = tb[pids[i]]
            /\ pc' = "anc"
       ELSE /\ apid' = apid
            /\ pc' = "panic"
  /\ UNCHANGED <<tb, buildVars, flagPids, pids, i, tx, flat>>

\* Main lines 82-84: one iteration of the ancestors loop,
\* tr = processTree{pid: tr}
Ancestor ==
  /\ pc = "anc"
  /\ apid > 0
  /\ heap' = HeapPut(heap, NewAddr(nalloc), MapPut(EmptyMap, apid, trb))
  /\ trb' = NewAddr(nalloc)
  /\ nalloc' = nalloc + 1
  /\ IF apid \in DOMAIN tb
       THEN /\ apid' = tb[apid]
            /\ pc' = pc
       ELSE /\ apid' = apid
            /\ pc' = "panic"
  /\ UNCHANGED <<tb, buildVars, flagPids, pids, i, tx, flat>>

\* Main line 87: the ancestors loop is over, tx := trx
AncestorEnd ==
  /\ pc = "anc"
  /\ apid <= 0
  /\ tx' = trx
  /\ pc' = "descend"
  /\ UNCHANGED <<tb, heap, buildVars, flagPids, pids, i, apid, trb, nalloc,
                 flat>>

\* Main lines 89-104: one iteration of the `loop:' for statement.  More than
\* one key panics; no key leaves the inner range loop without a break and the
\* outer loop repeats unchanged for ever ("spin"); after `break loop' the
\* locals of the iteration are cleared
Descend ==
  /\ pc = "descend"
  /\ IF Cardinality(Keys(heap, trb)) > 1
       THEN /\ pc' = "panic"
            /\ UNCHANGED <<heap, i, trb, tx>>
       ELSE IF Keys(heap, trb) = {}
         THEN /\ pc' = "spin"
              /\ UNCHANGED <<heap, i, trb, tx>>
         ELSE LET k == CHOOSE k \in Keys(heap, trb) : TRUE
                  t == heap[trb][k]
              IN IF tx = Nil
                   THEN /\ pc' = "panic"
                        /\ UNCHANGED <<heap, i, trb, tx>>
                   ELSE IF k \notin DOMAIN heap[tx]
                     THEN /\ heap' = HeapPut(heap, tx, MapPut(heap[tx], k, t))
                          /\ i' = i + 1
                          /\ pc' = "next"
                          /\ trb' = Nil
                          /\ tx' = Nil
                     ELSE /\ trb' = t
                          /\ tx' = heap[tx][k]
                          /\ UNCHANGED <<heap, i, pc>>
  /\ UNCHANGED <<tb, buildVars, flagPids, pids, apid, nalloc, flat>>

\* Main line 106: flatTree(tb, trx); display(tb[pid], indent) reads p.Pid and
\* panics on a pid that has no record
Flat ==
  /\ pc = "next"
  /\ i > Len(pids)
  /\ \E f \in flatTree(heap, trx) :
       IF \A n \in 1 .. Len(f) : f[n][2] \in DOMAIN tb
         THEN /\ flat' = f
              /\ pc' = "done"
         ELSE /\ flat' = flat
              /\ pc' = "panic"
  /\ UNCHANGED <<tb, heap, buildVars, flagPids, pids, i, apid, trb, tx,
                 nalloc>>

Next ==
  \/ RangeNext \/ Walk \/ AddPath \/ RangeEnd
  \/ FilterPids \/ Found \/ Find \/ Ancestor \/ AncestorEnd \/ Descend
  \/ Flat

Spec == Init /\ [][Next]_vars

(***************************************************************************)
(* What the table says: the ancestors, descendants and lineage of an id    *)
(***************************************************************************)

\* the proper ancestors of k recorded by table t, following at most n links
RECURSIVE Up(_, _, _)
Up(t, k, n) ==
  IF n = 0 \/ k \notin DOMAIN t THEN {}
  ELSE IF t[k] <= 0 \/ t[k] \notin DOMAIN t THEN {}
  ELSE {t[k]} \cup Up(t, t[k], n - 1)

Ancestors(t, k) == Up(t, k, Cardinality(DOMAIN t))
Descendants(t, k) == { c \in DOMAIN t : k \in Ancestors(t, c) }
Lineage(t, k) == {k} \cup Ancestors(t, k) \cup Descendants(t, k)

\* all ids positive, every parent <= 0 or a key, parent links acyclic
WellFormed(t) ==
  \A k \in DOMAIN t :
    /\ k > 0
    /\ t[k] <= 0 \/ t[k] \in DOMAIN t
    /\ k \notin Ancestors(t, k)

\* the parent of c as the tree shows it: 0 stands for the top level
TableParent(t, c) == IF t[c] <= 0 THEN 0 ELSE t[c]

\* a record whose parent id is positive and not a key of the table
IsOrphan(t, c) == c \in DOMAIN t /\ c > 0 /\ t[c] > 0 /\ t[c] \notin DOMAIN t

(***************************************************************************)
(* What a tree holds: its <<parent, child>> pairs (0 is the top level),    *)
(* its ids and the number of its nodes                                     *)
(***************************************************************************)

RECURSIVE Edges(_, _, _)
Edges(h, a, parent) ==
  UNION { {<<parent, k>>} \cup Edges(h, h[a][k], k) : k \in Keys(h, a) }

Ids(h, a) == { e[2] : e \in Edges(h, a, 0) }

RECURSIVE NodeCount(_, _)
NodeCount(h, a) ==
  LET RECURSIVE sum(_)
      sum(S) == IF S = {} THEN 0
                ELSE LET k == CHOOSE x \in S : TRUE
                     IN 1 + NodeCount(h, h[a][k]) + sum(S \ {k})
  IN sum(Keys(h, a))

\* buildTree has returned
Built ==
  \/ pc \in {"filter", "next", "anc", "descend", "done", "spin"}
  \/ pc = "panic" /\ done = DOMAIN tb /\ bpids = <<>>

\* a panic inside buildTree
BuildPanic == pc = "panic" /\ bpids # <<>>

\* C1: buildTree on a well-formed table returns a forest that holds every id
\* of the table exactly once, whose top-level keys are the ids with parent
\* <= 0, and where c is a child of p iff the table records p as c's parent;
\* an empty table gives an empty tree.  (Checked from the return of
\* buildTree to the end of Main, so Main does not change the tree either.)
C1_BuildTreeIsForestOfTable ==
  (Built /\ WellFormed(tb)) =>
    /\ NodeCount(heap, tr) = Cardinality(DOMAIN tb)
    /\ Edges(heap, tr, 0) = { <<TableParent(tb, c), c>> : c \in DOMAIN tb }
    /\ DOMAIN heap[tr] = { c \in DOMAIN tb : tb[c] <= 0 }

C1_Witness ==
  /\ pc = "filter"
  /\ WellFormed(tb)
  /\ \E c \in DOMAIN tb : Cardinality(Ancestors(tb, c)) = 2
  /\ \E a \in DOMAIN heap : Cardinality(DOMAIN heap[a]) = 2

\* C2: for targets that are all in the table (here: all in the tree built
\* from it), in any order, the restricted tree that Main lists holds exactly
\* the union of the targets' lineages, each id once.
C2_RestrictedTreeIsUnionOfLineages ==
  (/\ pc = "done"
   /\ flagPids # <<>>
   /\ Range(flagPids) \subseteq Ids(heap, tr)) =>
    /\ Ids(heap, trx) = UNION { Lineage(tb, t) : t \in Range(flagPids) }
    /\ NodeCount(heap, trx) = Cardinality(Ids(heap, trx))

\* C3: for a target t of the tree, findTree(tree, t) wrapped in t's ancestor
\* chain holds t, its ancestors and its descendants and no other id, each
\* once; with a single target that is the restricted tree.  For the example
\* table and target 4 the result is {1, 2, 4}.
C3_LineageOfOneTarget ==
  /\ (pc = "descend" /\ tx = trx /\ pids[i] \in Ids(heap, tr)) =>
       /\ Ids(heap, trb) = Lineage(tb, pids[i])
       /\ NodeCount(heap, trb) = Cardinality(Lineage(tb, pids[i]))
  /\ (pc = "done" /\ Len(pids) = 1 /\ pids[1] \in Ids(heap, tr)) =>
       /\ Ids(heap, trx) = Lineage(tb, pids[1])
       /\ NodeCount(heap, trx) = Cardinality(Lineage(tb, pids[1]))
  /\ (pc = "done" /\ tb = Example /\ flagPids = <<4>>) =>
       Ids(heap, trx) = {1, 2, 4}

C3_Witness ==
  /\ pc = "done"
  /\ tb = Example
  /\ flagPids = <<2>>
  /\ Ids(heap, trx) = {1, 2, 4}

\* C4: a record whose parent id is positive and not a key of the table does
\* not make buildTree fail: the process becomes a top-level root and the
\* absent parent id is not in the tree.
C4_OrphanBecomesRoot ==
  (\E c \in DOMAIN tb : IsOrphan(tb, c)) =>
    /\ ~BuildPanic
    /\ Built =>
         \A c \in DOMAIN tb :
           IsOrphan(tb, c) =>
             c \in DOMAIN heap[tr] /\ tb[c] \notin Ids(heap, tr)

\* C5: the ancestor walk of buildTree stops at an id it has already met (a
\* record that is its own parent, or a longer cycle), so the walk ends.
C5_WalkStopsAtRepeatedId ==
  (pc = "walk" /\ pid > 0) => pid \notin Range(bpids)

\* C6: flags that are not keys of the table are ignored, and with no valid
\* flag Main completes and lists the lineage of pid 1, for every table.
C6_FallbackToPidOne ==
  (Built /\ pc # "filter" /\ filterPids(tb, flagPids) = <<>>) =>
    /\ pids = <<1>>
    /\ pc \notin {"panic", "spin"}
    /\ pc = "done" => Ids(heap, trx) = {1} \cup Descendants(tb, 1)
(***************************************************************************)
(* What a listing must be, read off the pairs of the tree it lists         *)
(***************************************************************************)

\* the parent of id k in the set E of <<parent, child>> pairs
ParentIn(E, k) == CHOOSE p \in { e[1] : e \in E } : <<p, k>> \in E

\* the number of ancestors of k in E
RECURSIVE DepthIn(_, _)
DepthIn(E, k) == IF ParentIn(E, k) = 0 THEN 0 ELSE 1 + DepthIn(E, ParentIn(E, k))

\* the descendants of k in E
RECURSIVE BelowIn(_, _)
BelowIn(E, k) ==
  LET cs == { e[2] : e \in { x \in E : x[1] = k } }
  IN cs \cup UNION { BelowIn(E, c) : c \in cs }

\* the greatest number of levels below k in E
HeightIn(E, k) ==
  LET hs == { DepthIn(E, d) - DepthIn(E, k) : d \in BelowIn(E, k) }
  IN IF hs = {} THEN 0 ELSE CHOOSE x \in hs : \A y \in hs : y <= x

\* C7: flatTree lists the tree depth first in pre-order: every node once
\* (as many pairs as nodes), roots at depth 0, every node at the depth equal
\* to the number of its ancestors, and every node immediately followed by
\* the listing of its whole subtree.
C7_FlatTreeIsPreOrder ==
  pc = "done" =>
    LET E == Edges(heap, trx, 0)
    IN /\ Len(flat) = NodeCount(heap, trx)
       /\ { flat[n][2] : n \in 1 .. Len(flat) } = Ids(heap, trx)
       /\ \A n, m \in 1 .. Len(flat) : flat[n][2] = flat[m][2] => n = m
       /\ \A n \in 1 .. Len(flat) :
            /\ flat[n][1] = DepthIn(E, flat[n][2])
            /\ flat[n][2] \in DOMAIN heap[trx] => flat[n][1] = 0
            /\ LET below == BelowIn(E, flat[n][2])
               IN /\ n + Cardinality(below) <= Len(flat)
                  /\ { flat[m][2] : m \in n + 1 .. n + Cardinality(below) } = below

C7_Witness ==
  /\ pc = "done"
  /\ Len(flat) = 4
  /\ \E n \in 1 .. 2 : flat[n][1] = 1 /\ flat[n + 1][1] = 2 /\ flat[n + 2][1] < 2

\* C8: at every node, the top level included, a sibling with a deeper
\* subtree is listed before a shallower one and siblings of equal subtree
\* depth are listed by ascending pid; the example table lists as
\* (0,1),(1,2),(2,4),(1,3).
C8_DeepestSiblingsFirst ==
  pc = "done" =>
    LET E == Edges(heap, trx, 0)
    IN /\ \A n, m \in 1 .. Len(flat) :
            (n < m /\ ParentIn(E, flat[n][2]) = ParentIn(E, flat[m][2])) =>
              \/ HeightIn(E, flat[n][2]) > HeightIn(E, flat[m][2])
              \/ /\ HeightIn(E, flat[n][2]) = HeightIn(E, flat[m][2])
                 /\ flat[n][2] < flat[m][2]
       /\ (tb = Example /\ Ids(heap, trx) = 1 .. 4) =>
            flat = << <<0, 1>>, <<1, 2>>, <<2, 4>>, <<1, 3>> >>

C8_Witness ==
  /\ pc = "done"
  /\ \E n, m \in 1 .. Len(flat) :
       /\ n < m
       /\ flat[n][1] = flat[m][1]
       /\ flat[n][2] > flat[m][2]
       /\ ParentIn(Edges(heap, trx, 0), flat[n][2])
            = ParentIn(Edges(heap, trx, 0), flat[m][2])

\* the ancestor path root..k of a key of a built table
RECURSIVE PathOf(_, _)
PathOf(t, k) == IF k <= 0 THEN <<>> ELSE PathOf(t, t[k]) \o <<k>>

\* the tree built by taking the keys of the table in ascending order
RECURSIVE BuildAscending(_, _, _)
BuildAscending(t, h, S) ==
  IF S = {} THEN h
  ELSE LET k == CHOOSE x \in S : \A y \in S : x <= y
       IN BuildAscending(t, addPid(h, tr, PathOf(t, k)), S \ {k})

\* the maps of the tree built by buildTree
TreeHeap(h) == [a \in { x \in DOMAIN h : x[1] = 0 } |-> h[a]]

\* C9: the listing depends on the table only, not on the order in which Go
\* iterates its maps: whatever order buildTree took the keys in, the tree is
\* the one built in ascending order; every findTree of Main has one result;
\* flatTree has one possible listing, the one Main printed.
C9_IterationOrderIsIrrelevant ==
  /\ pc = "filter" =>
       TreeHeap(heap) =
         BuildAscending(tb, HeapPut(EmptyMap, tr, EmptyMap), DOMAIN tb)
  /\ (pc = "next" /\ i <= Len(pids)) =>
       /\ Cardinality(findTree(heap, tr, pids[i])) <= 1
       /\ Cardinality(findTree(heap, trx, pids[i])) <= 1
  /\ (pc = "next" /\ i > Len(pids)) => Cardinality(flatTree(heap, trx)) = 1
  /\ pc = "done" => flatTree(heap, trx) = {flat}

C9_Witness ==
  /\ pc = "done"
  /\ Len(flat) >= 3
  /\ \E a \in DOMAIN heap :
       /\ Cardinality(DOMAIN heap[a]) >= 2
       /\ DOMAIN heap[a] \subseteq Ids(heap, trx)

\* the map that the path ps leads to below the map at a, Nil when a key of
\* the path is missing
RECURSIVE Lookup(_, _, _)
Lookup(h, a, ps) ==
  IF ps = <<>> THEN a
  ELSE IF Head(ps) \in DOMAIN h[a] THEN Lookup(h, h[a][Head(ps)], Tail(ps))
  ELSE Nil

\* the addresses of the maps along the path ps below the map at a
PathAddrs(a, ps) == { a \o SubSeq(ps, 1, n) : n \in 1 .. Len(ps) }

\* C10: addPid is idempotent and reuses prefixes: inserting a path that the
\* tree already holds leaves the tree unchanged; otherwise every map keeps
\* its keys and children and only the maps of the missing suffix are new;
\* inserting the path a second time changes nothing.
C10_AddPidIdempotentPrefixReusing ==
  [][ (pc = "walk" /\ pc' = "range") =>
        /\ Lookup(heap, tr, bpids) # Nil => heap' = heap
        /\ \A a \in DOMAIN heap :
             /\ a \in DOMAIN heap'
             /\ \A k \in DOMAIN heap[a] :
                  k \in DOMAIN heap'[a] /\ heap'[a][k] = heap[a][k]
        /\ DOMAIN heap' = DOMAIN heap \cup PathAddrs(tr, bpids)
        /\ \A a \in DOMAIN heap' \ DOMAIN heap : Cardinality(DOMAIN heap'[a]) <= 1
        /\ Lookup(heap', tr, bpids) # Nil
        /\ addPid(heap', tr, bpids) = heap'
    ]_vars

\* a path was inserted whose last map already had children, below a map
\* that holds other keys as well
C10_Witness ==
  /\ pc = "range"
  /\ Len(bpids) >= 2
  /\ Lookup(heap, tr, bpids) # Nil
  /\ DOMAIN heap[Lookup(heap, tr, bpids)] # {}
  /\ Cardinality(DOMAIN heap[Lookup(heap, tr, SubSeq(bpids, 1, 1))]) >= 2
\* the number of maps between the map at a and the map at x below it (the
\* number of descent steps that lead from a to x); -1 when x is not below a
RECURSIVE DepthOfMap(_, _, _)
DepthOfMap(h, a, x) ==
  IF a = x THEN 0
  ELSE LET ds == { DepthOfMap(h, h[a][k], x) : k \in Keys(h, a) } \ {-1}
       IN IF ds = {} THEN -1
          ELSE 1 + CHOOSE d \in ds : \A e \in ds : d <= e

\* C11: in the splice loop, for a target that is a key of the table and was
\* not found in the result tree, the subtree being inserted has exactly one
\* top-level key at every descent step (the panic guard is not reached and
\* the loop does not repeat without a key), and the descent is at most as
\* many maps below the result tree as the target has ancestors, so it leaves
\* the loop after at most (depth of the target + 1) steps.
C11_SpliceHasOneKeyPerStep ==
  (/\ pc \in {"descend", "spin", "panic"}
   /\ Built
   /\ i <= Len(pids)
   /\ pids[i] \in DOMAIN tb) =>
    /\ pc = "descend"
    /\ Cardinality(Keys(heap, trb)) = 1
    /\ DepthOfMap(heap, trx, tx) >= 0
    /\ DepthOfMap(heap, trx, tx) <= Cardinality(Ancestors(tb, pids[i]))
====
